---- MODULE Spec2Model ----
(***************************************************************************)
(* Real-time connection and state-synchronisation layer of the traffic     *)
(* dashboard.                                                              *)
(*                                                                         *)
(*   - WebSocketService of frontend/src/services/trafficAPI.ts: the        *)
(*     connect / retry machine (connect, onopen, onmessage, onerror,       *)
(*     onclose, scheduleReconnect, clearReconnectInterval, disconnect).    *)
(*   - TrafficDashboard of frontend/src/components/TrafficDashboard.tsx:   *)
(*     the message handler, the open / close / error handlers, the         *)
(*     request/response calls and the effects that follow a render.        *)
(*                                                                         *)
(* Delays are held in units of 1/MultDen ms, so that the factor 1.5 of the *)
(* backoff is exact (25312.5 ms is a delay the code reaches).              *)
(***************************************************************************)
EXTENDS Integers, Sequences, FiniteSets, Bags, TLC

(***************************************************************************)
(* Bounds of the model.                                                    *)
(***************************************************************************)
MaxAttempts == 6      \* channels one service instance may create
MaxFrames == 2        \* raw frames delivered to ws.onmessage
MaxInflight == 2      \* request/response calls in flight at once
MaxDisconnects == 2   \* calls of disconnect() on the dashboard's own service

(***************************************************************************)
(* Program constants.                                                      *)
(***************************************************************************)
InitialReconnectDelay == 5000     \* trafficAPI.ts:195 and :215
maxReconnectDelay == 30000        \* trafficAPI.ts:196
MultNum == 3                      \* trafficAPI.ts:257, 1.5 = 3/2
MultDen == 2
NormalClosure == 1000             \* trafficAPI.ts:293
GoingAway == 1001                 \* TrafficDashboard.tsx:335

Ms(n) == n * MultDen

\* close codes a close event may carry; 1006 is a close nobody asked for
CloseCodes == {NormalClosure, GoingAway, 1006}

VARIABLES
    \* ---- WebSocketService (trafficAPI.ts) ----
    ws,                  \* this.ws: 0 is null, else the id of a channel
    readyState,          \* readyState of every channel ever created
    reconnectIntervalId, \* this.reconnectIntervalId: 0 is null, else a timer id
    pendingTimers,       \* timers armed with setTimeout, not fired nor cleared
    reconnectDelay,      \* this.reconnectDelay
    messageHandler,      \* this.messageHandler is set
    attempts,            \* number of `new WebSocket` evaluated
    timersArmed,         \* number of setTimeout evaluated
    armedDelay,          \* delay given to the latest setTimeout
    parseErrorLog,       \* console.error entries of ws.onmessage
    noHandlerLog,        \* console.warn entries of ws.onmessage
    handlerCalls,        \* invocations of the message handler
    framesSeen,          \* raw frames delivered to ws.onmessage
    \* history of the service
    fails,               \* failed attempts since construction or the last open
    opened,              \* some channel of this instance has opened
    manualClosed,        \* disconnect() has been called
    closedWhileScheduled,\* disconnect() was called with a reconnect pending
    \* ---- TrafficDashboard (TrafficDashboard.tsx) ----
    intersectionStatus,  \* useState: BasicIntersectionStatus | null
    detectionResults,    \* useState: detection result | null
    analyticsData,       \* useState: analytics summary | null
    isSimulationRunning, \* useState: "null", "true" or "false"
    isLoading,           \* useState: the one loading marker of all calls
    isConnecting,        \* useState: connection status
    activeTab,           \* useState: "live", "detection" or "analytics"
    mounted,             \* the component is mounted (wsServiceRef.current set)
    inflight,            \* bag of request/response calls not yet completed
    snapshotFetched,     \* history: the snapshot fetch has been issued
    \* ---- WebSocketService of TrafficDashboard.tsx (100-139) ----
    connectTimeout,      \* this.connectTimeout is armed and has not fired
    closeCallbacks,      \* invocations of onCloseCallback by disconnect()
    \* ---- request/response client (trafficAPI.ts) ----
    apiCall,             \* the latest response and how handleResponse settled
    step                 \* the handler that ran last, with its input

svcVars == <<ws, readyState, reconnectIntervalId, pendingTimers, reconnectDelay,
             messageHandler, attempts, timersArmed, armedDelay, parseErrorLog,
             noHandlerLog, handlerCalls, framesSeen, fails, opened,
             manualClosed, closedWhileScheduled>>

dashVars == <<intersectionStatus, detectionResults, analyticsData,
              isSimulationRunning, isLoading, isConnecting, activeTab, mounted,
              inflight, snapshotFetched, connectTimeout, closeCallbacks,
              apiCall>>

vars == <<svcVars, dashVars, step>>

Sockets == 1..(MaxAttempts + 1)
Live == {"CONNECTING", "OPEN", "CLOSING"}

(***************************************************************************)
(* Backoff: Math.min(this.maxReconnectDelay, this.reconnectDelay * 1.5).   *)
(***************************************************************************)
\* the backoff without its cap
NextDelay_uncapped(d) == (d * MultNum) \div MultDen

\* the multiplier applied as a divisor
NextDelay_decay(d) == (d * MultDen) \div MultNum

NextDelay(d) ==
    IF d * MultNum >= Ms(maxReconnectDelay) * MultDen
    THEN Ms(maxReconnectDelay)
    ELSE (d * MultNum) \div MultDen

(***************************************************************************)
(* clearReconnectInterval: the timer named by reconnectIntervalId is       *)
(* cleared (clearTimeout of a fired timer does nothing) and the id is set  *)
(* to null.                                                                *)
(***************************************************************************)
\* the id forgotten without clearTimeout
clearedTimers_keep(id, timers) == timers

clearedTimers(id, timers) == IF id # 0 THEN timers \ {id} ELSE timers

clearedId(id) == 0

(***************************************************************************)
(* Text: a string is a sequence of characters.  toLowerCase and includes   *)
(* are computed as String.prototype.toLowerCase / includes compute them.   *)
(***************************************************************************)
UpperCase == <<"A", "B", "C", "D", "E", "F", "G", "H", "I", "J", "K", "L", "M",
               "N", "O", "P", "Q", "R", "S", "T", "U", "V", "W", "X", "Y", "Z">>
LowerCase == <<"a", "b", "c", "d", "e", "f", "g", "h", "i", "j", "k", "l", "m",
               "n", "o", "p", "q", "r", "s", "t", "u", "v", "w", "x", "y", "z">>

lowerChar(c) ==
    IF \E i \in DOMAIN UpperCase : UpperCase[i] = c
    THEN LowerCase[CHOOSE i \in DOMAIN UpperCase : UpperCase[i] = c]
    ELSE c

toLowerCase(s) == [i \in DOMAIN s |-> lowerChar(s[i])]

includes(s, m) ==
    \E i \in 0..(Len(s) - Len(m)) : SubSeq(s, i + 1, i + Len(m)) = m

OperationalMarker == <<"o", "p", "e", "r", "a", "t", "i", "o", "n", "a", "l">>
TextOperational == OperationalMarker
TextOffline == <<"o", "f", "f", "l", "i", "n", "e">>
TextMixed == <<"N", "o", "n", "-", "O", "p", "e", "r", "a", "t", "i", "o", "n", "a", "l">>
TextEmpty == <<>>

(***************************************************************************)
(* Values of the system_status field: missing, a string, or a value that   *)
(* is not a string (a number, say).                                        *)
(***************************************************************************)
StatusAbsent == [kind |-> "absent", text |-> <<>>]
StatusNonText == [kind |-> "nontext", text |-> <<>>]
StatusText(t) == [kind |-> "text", text |-> t]

(***************************************************************************)
(* data.data?.system_status?.toLowerCase().includes('operational'):        *)
(* undefined for a missing field, a TypeError for a value without          *)
(* toLowerCase, else a boolean.                                            *)
(***************************************************************************)
\* the test without toLowerCase
isRunningOf_caseSensitive(ss) ==
    CASE ss.kind = "absent" -> "undefined"
      [] ss.kind = "nontext" -> "throws"
      [] OTHER -> IF includes(ss.text, OperationalMarker)
                  THEN "true" ELSE "false"

isRunningOf(ss) ==
    CASE ss.kind = "absent" -> "undefined"
      [] ss.kind = "nontext" -> "throws"
      [] OTHER -> IF includes(toLowerCase(ss.text), OperationalMarker)
                  THEN "true" ELSE "false"

(***************************************************************************)
(* BasicIntersectionStatus | null.  body stands for the fields the core    *)
(* passes through without reading them.                                    *)
(***************************************************************************)
NullStatus ==
    [present |-> FALSE, body |-> "absent", system_status |-> StatusAbsent,
     emergency_mode_active |-> "absent"]

Snapshot(b, ss, em) ==
    [present |-> TRUE, body |-> b, system_status |-> ss,
     emergency_mode_active |-> em]

(***************************************************************************)
(* A parsed frame { type, data }.  isObject is FALSE for a JSON value such *)
(* as null that has no fields; type "absent" is a missing discriminant.    *)
(***************************************************************************)
NoData ==
    [present |-> FALSE, body |-> "absent", system_status |-> StatusAbsent,
     emergency_mode_active |-> "absent", is_active |-> "absent"]

Data(b, ss, em, act) ==
    [present |-> TRUE, body |-> b, system_status |-> ss,
     emergency_mode_active |-> em, is_active |-> act]

Frame(t, d) == [isObject |-> TRUE, type |-> t, data |-> d]
NullFrame == [isObject |-> FALSE, type |-> "absent", data |-> NoData]

RecognizedTypes == {"intersection_status", "vehicle_detection", "emergency_alert"}

StatusValues ==
    {StatusAbsent, StatusNonText, StatusText(TextOperational),
     StatusText(TextOffline), StatusText(TextMixed), StatusText(TextEmpty)}

StatusFrames ==
    {Frame("intersection_status", Data("p1", ss, em, "absent")) :
        ss \in StatusValues, em \in {"absent", "true", "false"}}
    \cup {Frame("intersection_status", NoData)}

DetectionFrames ==
    {Frame("vehicle_detection", Data("d1", StatusAbsent, "absent", "absent")),
     Frame("vehicle_detection", NoData)}

AlertFrames ==
    {Frame("emergency_alert", Data("absent", StatusAbsent, "absent", act)) :
        act \in {"absent", "true", "false"}}
    \cup {Frame("emergency_alert", NoData)}

UnknownFrames ==
    {Frame(t, d) : t \in {"absent", "", "heartbeat"},
                   d \in {NoData,
                          Data("p2", StatusText(TextOperational), "true", "true")}}
    \cup {NullFrame}

Frames == StatusFrames \cup DetectionFrames \cup AlertFrames \cup UnknownFrames

(***************************************************************************)
(* The handler given to service.onMessage (TrafficDashboard.tsx:286-329),  *)
(* as a function of the three pieces of state it writes.                   *)
(***************************************************************************)
Router(is, det, run) ==
    [intersectionStatus |-> is, detectionResults |-> det,
     isSimulationRunning |-> run]

\* !data || !data.type
invalidStructure(data) == ~data.isObject \/ data.type \in {"absent", ""}

\* setIntersectionStatus(data.data)
statusOf(d) ==
    IF d.present
    THEN Snapshot(d.body, d.system_status, d.emergency_mode_active)
    ELSE NullStatus

\* data.data?.is_active ?? false
activeFlagOf(d) == IF d.is_active = "absent" THEN "false" ELSE d.is_active

\* the spread written last: { emergency_mode_active: ..., ...(prev ?? {}) }
withEmergency_spreadLast(prev, flag) ==
    IF prev.emergency_mode_active # "absent"
    THEN [prev EXCEPT !.present = TRUE]
    ELSE [prev EXCEPT !.present = TRUE, !.emergency_mode_active = flag]

\* { ...(prev ?? {}), emergency_mode_active: ... }
withEmergency(prev, flag) ==
    [prev EXCEPT !.present = TRUE, !.emergency_mode_active = flag]

\* the setter called with whatever the test gives, a missing text counting
\* as not running
runningAfter_defaultsFalse(run, ss) ==
    IF isRunningOf(ss) = "true" THEN "true" ELSE "false"

\* if (typeof isRunning === 'boolean') setIsSimulationRunning(isRunning);
\* a TypeError leaves the function before the setter is reached
runningAfter(run, ss) ==
    IF isRunningOf(ss) \in {"true", "false"} THEN isRunningOf(ss) ELSE run

\* the handler with a last branch that takes every other type for a detection
onMessage_elseDetection(st, data) ==
    IF invalidStructure(data) THEN st
    ELSE CASE data.type = "intersection_status" ->
                Router(statusOf(data.data), st.detectionResults,
                       runningAfter(st.isSimulationRunning,
                                    data.data.system_status))
           [] data.type = "emergency_alert" ->
                Router(withEmergency(st.intersectionStatus,
                                     activeFlagOf(data.data)),
                       st.detectionResults, st.isSimulationRunning)
           [] OTHER ->
                Router(st.intersectionStatus,
                       IF data.data.present THEN data.data.body ELSE "null",
                       st.isSimulationRunning)

\* the handler with a detection branch that writes intersectionStatus
onMessage_detectionIntoStatus(st, data) ==
    IF invalidStructure(data) THEN st
    ELSE CASE data.type = "intersection_status" ->
                Router(statusOf(data.data), st.detectionResults,
                       runningAfter(st.isSimulationRunning,
                                    data.data.system_status))
           [] data.type = "vehicle_detection" ->
                Router(statusOf(data.data), st.detectionResults,
                       st.isSimulationRunning)
           [] data.type = "emergency_alert" ->
                Router(withEmergency(st.intersectionStatus,
                                     activeFlagOf(data.data)),
                       st.detectionResults, st.isSimulationRunning)
           [] OTHER -> st

onMessage(st, data) ==
    IF invalidStructure(data) THEN st
    ELSE CASE data.type = "intersection_status" ->
                Router(statusOf(data.data), st.detectionResults,
                       runningAfter(st.isSimulationRunning,
                                    data.data.system_status))
           [] data.type = "vehicle_detection" ->
                Router(st.intersectionStatus,
                       IF data.data.present THEN data.data.body ELSE "null",
                       st.isSimulationRunning)
           [] data.type = "emergency_alert" ->
                Router(withEmergency(st.intersectionStatus,
                                     activeFlagOf(data.data)),
                       st.detectionResults, st.isSimulationRunning)
           [] OTHER -> st

RouterNow == Router(intersectionStatus, detectionResults, isSimulationRunning)

(***************************************************************************)
(* Responses of the request/response transport.  A body is text that is    *)
(* not JSON, or a JSON value: null, a scalar, or an object whose detail    *)
(* field is missing, a string, or a list of validation errors.             *)
(***************************************************************************)
NoDetail == [kind |-> "absent", text |-> ""]
DetailText(t) == [kind |-> "text", text |-> t]
DetailList == [kind |-> "list", text |-> ""]
Details ==
    {NoDetail, DetailText(""), DetailText("Simulation already running"),
     DetailList}

NotJson == [kind |-> "invalid", detail |-> NoDetail]
JsonNull == [kind |-> "null", detail |-> NoDetail]
JsonScalar == [kind |-> "scalar", detail |-> NoDetail]
JsonObject(d) == [kind |-> "object", detail |-> d]
Bodies == {NotJson, JsonNull, JsonScalar} \cup {JsonObject(d) : d \in Details}

Statuses == {200, 202, 204, 400, 404, 422, 500}
StatusTexts == {"", "Not Found", "Internal Server Error"}
Responses == [status : Statuses, statusText : StatusTexts, body : Bodies]

\* response.ok
responseOk(r) == r.status \in 200..299

\* a || b on strings
orElse(a, b) == IF a # "" THEN a ELSE b

\* the truth value of errorData?.detail
truthy(d) == d.kind = "list" \/ (d.kind = "text" /\ d.text # "")

\* the message new Error(x) keeps: String(x)
messageOf(d) ==
    CASE d.kind = "text" -> d.text
      [] d.kind = "list" -> "[object Object]"
      [] OTHER -> "undefined"

\* errorData?.detail ?? `HTTP error! Status: ${response.status}`
errorMessage_nullish(errorData, status) ==
    IF errorData.detail.kind # "absent" THEN errorData.detail
    ELSE DetailText("HTTP error! Status: " \o ToString(status))

\* errorData?.detail || `HTTP error! Status: ${response.status}`
errorMessage(errorData, status) ==
    IF truthy(errorData.detail) THEN errorData.detail
    ELSE DetailText("HTTP error! Status: " \o ToString(status))

Thrown(m) == [kind |-> "throw", message |-> m, value |-> NotJson]
Returned(m, v) == [kind |-> "return", message |-> m, value |-> v]
NoCall == [response |-> [status |-> 0, statusText |-> "", body |-> NotJson],
           outcome |-> Returned("", NotJson)]

\* handleResponse (16-39)
handleResponse(r) ==
    IF ~responseOk(r)
    THEN LET errorData ==
                 IF r.body.kind = "invalid"
                 THEN JsonObject(DetailText(orElse(r.statusText,
                                                   "Unknown fetch error")))
                 ELSE r.body
         IN Thrown(messageOf(errorMessage(errorData, r.status)))
    ELSE IF r.status \in {204, 202}
         THEN Returned(r.statusText, NotJson)
         ELSE IF r.body.kind = "invalid"
              THEN Thrown("Failed to parse API response JSON.")
              ELSE Returned("", r.body)

(***************************************************************************)
(* The step that ran last.                                                 *)
(***************************************************************************)
Step(k) ==
    [kind |-> k, frame |-> NullFrame, ok |-> TRUE, code |-> 0, toast |-> FALSE]
FrameStep(k, f) == [Step(k) EXCEPT !.frame = f]
DoneStep(k, b) == [Step(k) EXCEPT !.ok = b]
CloseStep(k, c) == [Step(k) EXCEPT !.code = c]
ToastStep(k, c, t) == [Step(k) EXCEPT !.code = c, !.toast = t]

(***************************************************************************)
(* Request/response calls in flight.  cap is what the call's continuation  *)
(* reads of the render that issued it: handleStartSimulation and           *)
(* handleStopSimulation spread that render's intersectionStatus into the   *)
(* message they simulate, overwriting system_status and the timestamps, so *)
(* of the fields the core reads emergency_mode_active is the one kept.     *)
(***************************************************************************)
Request(k, c) == [kind |-> k, cap |-> c]
Issue(bag, r) == bag (+) SetToBag({r})
Settle(bag, r) == bag (-) SetToBag({r})
InFlight(k) == {r \in BagToSet(inflight) : r.kind = k}
CountInFlight(k) ==
    LET rs == InFlight(k)
        Sum[S \in SUBSET rs] ==
            IF S = {} THEN 0
            ELSE LET r == CHOOSE x \in S : TRUE
                 IN CopiesIn(r, inflight) + Sum[S \ {r}]
    IN Sum[rs]

(***************************************************************************)
(* loadAnalytics (515-539) as called by the effect of 542-552, which runs  *)
(* after every render in which activeTab, isLoading, analyticsData or      *)
(* detectionResults changed: with the analytics tab active, nothing        *)
(* loading and nothing cached, the fetch is issued and isLoading set.      *)
(***************************************************************************)
loadAnalyticsSkips(load, an) == load \/ an # "null"

\* a loadAnalytics that tests the cache alone
effectLoads_ignoresLoading(mnt, tab, load, an) ==
    mnt /\ tab = "analytics" /\ an = "null"

effectLoads(mnt, tab, load, an) ==
    mnt /\ tab = "analytics" /\ ~loadAnalyticsSkips(load, an)

(***************************************************************************)
(* The state after a handler's updates are rendered and the effects of     *)
(* that render have run.                                                   *)
(***************************************************************************)
CommitService(is, det, an, run, load, conn, tab, mnt, infl, tmo, closes) ==
    LET loads == effectLoads(mnt, tab, load, an)
        infl2 == IF loads THEN Issue(infl, Request("analytics", "absent"))
                 ELSE infl
    IN /\ BagCardinality(infl2) <= MaxInflight
       /\ intersectionStatus' = is
       /\ detectionResults' = det
       /\ analyticsData' = an
       /\ isSimulationRunning' = run
       /\ isLoading' = (load \/ loads)
       /\ isConnecting' = conn
       /\ activeTab' = tab
       /\ mounted' = mnt
       /\ inflight' = infl2
       /\ snapshotFetched' =
             (snapshotFetched
                \/ CopiesIn(Request("status", "absent"), infl2) >
                      CopiesIn(Request("status", "absent"), inflight))
       /\ connectTimeout' = tmo
       /\ closeCallbacks' = closes
       /\ apiCall' = apiCall

\* the same, for a handler that leaves the dashboard's own service alone
Commit(is, det, an, run, load, conn, tab, mnt, infl) ==
    CommitService(is, det, an, run, load, conn, tab, mnt, infl,
                  connectTimeout, closeCallbacks)

CommitRouter(st) ==
    Commit(st.intersectionStatus, st.detectionResults, analyticsData,
           st.isSimulationRunning, isLoading, isConnecting, activeTab,
           mounted, inflight)

(***************************************************************************)
(* Raw frames: the text handed to ws.onmessage, as a sequence of tokens.   *)
(* JSON.parse accepts the text of an object, <<"{", fields, "}">>, and the *)
(* text null; it throws on anything else (an empty text, a text cut before *)
(* its closing brace, a text that is no JSON at all).                      *)
(***************************************************************************)
Encode(f) == IF f.isObject THEN <<"{", f, "}">> ELSE <<"null">>

Truncated(raw) == SubSeq(raw, 1, Len(raw) - 1)

parses(raw) ==
    \/ raw = <<"null">>
    \/ Len(raw) = 3 /\ raw[1] = "{" /\ raw[3] = "}"

JSONparse(raw) == IF raw = <<"null">> THEN NullFrame ELSE raw[2]

WireFrames ==
    {Frame("intersection_status",
           Data("p1", StatusText(TextOperational), "absent", "absent")),
     Frame("emergency_alert", Data("absent", StatusAbsent, "absent", "true")),
     NullFrame}

RawFrames ==
    {Encode(f) : f \in WireFrames}
    \cup {Truncated(Encode(f)) : f \in WireFrames}
    \cup {<<"<html>">>}

(***************************************************************************)
(* WebSocketService (trafficAPI.ts:190-301).                               *)
(***************************************************************************)
\* scheduleReconnect that clears the pending timer and arms none
scheduleReconnect_onlyClears(delay, timers) ==
    /\ pendingTimers' = clearedTimers(reconnectIntervalId, timers)
    /\ reconnectIntervalId' = clearedId(reconnectIntervalId)
    /\ UNCHANGED <<timersArmed, armedDelay>>

\* scheduleReconnect (252-261): clear, then setTimeout(.., reconnectDelay);
\* timers are the timers pending when it is called
scheduleReconnect(delay, timers) ==
    /\ pendingTimers' =
          clearedTimers(reconnectIntervalId, timers) \cup {timersArmed + 1}
    /\ reconnectIntervalId' = timersArmed + 1
    /\ timersArmed' = timersArmed + 1
    /\ armedDelay' = delay

\* clearReconnectInterval (263-268)
clearReconnectInterval ==
    /\ pendingTimers' = clearedTimers(reconnectIntervalId, pendingTimers)
    /\ reconnectIntervalId' = clearedId(reconnectIntervalId)

\* the guard of connect (204)
alreadyConnected == ws # 0 /\ readyState[ws] = "OPEN"

\* connect (203-250), reached with reconnectDelay already at `delay` and
\* `timers` pending; created is FALSE when `new WebSocket` throws
connect(delay, timers, created) ==
    IF alreadyConnected
    THEN /\ pendingTimers' = timers
         /\ UNCHANGED <<ws, readyState, attempts, reconnectIntervalId,
                        timersArmed, armedDelay, fails>>
    ELSE /\ attempts' = attempts + 1
         /\ IF created
            THEN /\ ws' = attempts + 1
                 /\ readyState' = [readyState EXCEPT ![attempts + 1] = "CONNECTING"]
                 /\ pendingTimers' = timers
                 /\ UNCHANGED <<reconnectIntervalId, timersArmed, armedDelay,
                                fails>>
            ELSE /\ scheduleReconnect(delay, timers)
                 /\ fails' = fails + 1
                 /\ UNCHANGED <<ws, readyState>>

\* ws.onopen without the reset
delayOnOpen_keep(d) == d

\* the resetting assignment of ws.onopen (215)
delayOnOpen(d) == Ms(InitialReconnectDelay)

\* ws.onopen (213-219)
ws_onopen(s) ==
    /\ readyState[s] = "CONNECTING"
    /\ readyState' = [readyState EXCEPT ![s] = "OPEN"]
    /\ reconnectDelay' = delayOnOpen(reconnectDelay)
    /\ clearReconnectInterval
    /\ fails' = 0
    /\ opened' = TRUE
    /\ step' = Step("ws.onopen")
    /\ UNCHANGED <<ws, messageHandler, attempts, timersArmed, armedDelay,
                   parseErrorLog, noHandlerLog, handlerCalls, framesSeen,
                   manualClosed, closedWhileScheduled, dashVars>>

\* an error handler that schedules a reconnect of its own
ws_onerror_schedules(s) ==
    /\ readyState[s] \in {"CONNECTING", "OPEN"}
    /\ scheduleReconnect(reconnectDelay, pendingTimers)
    /\ step' = Step("ws.onerror")
    /\ UNCHANGED <<ws, readyState, reconnectDelay, messageHandler, attempts,
                   parseErrorLog, noHandlerLog, handlerCalls, framesSeen,
                   fails, opened, manualClosed, closedWhileScheduled,
                   dashVars>>

\* ws.onerror (235-238): logs
ws_onerror(s) ==
    /\ readyState[s] \in {"CONNECTING", "OPEN"}
    /\ step' = Step("ws.onerror")
    /\ UNCHANGED <<svcVars, dashVars>>

\* the codes the close event of channel s may carry: the one given to
\* ws.close (293) when disconnect() closed it, else any code of the peer
\* or of the network
closeCodesOf(s) ==
    IF readyState[s] = "CLOSING" THEN {NormalClosure}
    ELSE CloseCodes

\* ws.onclose (240-244): the close event of channel s, whoever closed it
ws_onclose(s) ==
    /\ readyState[s] \in Live
    /\ readyState' = [readyState EXCEPT ![s] = "CLOSED"]
    /\ ws' = 0
    /\ scheduleReconnect(reconnectDelay, pendingTimers)
    /\ fails' = fails + 1
    /\ \E c \in closeCodesOf(s) : step' = CloseStep("ws.onclose", c)
    /\ UNCHANGED <<reconnectDelay, messageHandler, attempts, parseErrorLog,
                   noHandlerLog, handlerCalls, framesSeen, opened,
                   manualClosed, closedWhileScheduled, dashVars>>

\* the callback of a setInterval: the timer stays armed after it fires
reconnectTimer_interval(t) ==
    /\ t \in pendingTimers
    /\ attempts < MaxAttempts
    /\ reconnectDelay' = NextDelay(reconnectDelay)
    /\ \E created \in BOOLEAN :
          connect(NextDelay(reconnectDelay), pendingTimers, created)
    /\ step' = Step("reconnectTimer")
    /\ UNCHANGED <<messageHandler, parseErrorLog, noHandlerLog, handlerCalls,
                   framesSeen, opened, manualClosed, closedWhileScheduled,
                   dashVars>>

\* the callback of setTimeout in scheduleReconnect (255-260)
reconnectTimer(t) ==
    /\ t \in pendingTimers
    /\ attempts < MaxAttempts
    /\ reconnectDelay' = NextDelay(reconnectDelay)
    /\ \E created \in BOOLEAN :
          connect(NextDelay(reconnectDelay), pendingTimers \ {t}, created)
    /\ step' = Step("reconnectTimer")
    /\ UNCHANGED <<messageHandler, parseErrorLog, noHandlerLog, handlerCalls,
                   framesSeen, opened, manualClosed, closedWhileScheduled,
                   dashVars>>

\* an empty catch
logParseError_silent(n) == n

\* the console.error of the catch branch of ws.onmessage (231)
logParseError(n) == n + 1

\* ws.onmessage (221-233)
ws_onmessage(s, raw) ==
    /\ readyState[s] = "OPEN"
    /\ framesSeen < MaxFrames
    /\ framesSeen' = framesSeen + 1
    /\ IF ~parses(raw)
       THEN /\ parseErrorLog' = logParseError(parseErrorLog)
            /\ UNCHANGED <<noHandlerLog, handlerCalls, dashVars>>
       ELSE IF messageHandler
            THEN /\ handlerCalls' = handlerCalls + 1
                 /\ IF mounted
                    THEN CommitRouter(onMessage(RouterNow, JSONparse(raw)))
                    ELSE UNCHANGED dashVars
                 /\ UNCHANGED <<parseErrorLog, noHandlerLog>>
            ELSE /\ noHandlerLog' = noHandlerLog + 1
                 /\ UNCHANGED <<parseErrorLog, handlerCalls, dashVars>>
    /\ step' = [Step("ws.onmessage") EXCEPT
                  !.ok = parses(raw),
                  !.frame = IF parses(raw) THEN JSONparse(raw) ELSE NullFrame]
    /\ UNCHANGED <<ws, readyState, reconnectIntervalId, pendingTimers,
                   reconnectDelay, messageHandler, attempts, timersArmed,
                   armedDelay, fails, opened, manualClosed,
                   closedWhileScheduled>>

\* ws.close(1000, ..) of disconnect (293): a channel not yet closed starts
\* closing; its close event follows
closed(rs, s) ==
    IF rs[s] \in {"CONNECTING", "OPEN"} THEN [rs EXCEPT ![s] = "CLOSING"] ELSE rs

\* disconnect (288-296)
disconnect ==
    /\ clearReconnectInterval
    /\ messageHandler' = FALSE
    /\ IF ws # 0
       THEN /\ readyState' = closed(readyState, ws)
            /\ ws' = 0
       ELSE UNCHANGED <<ws, readyState>>
    /\ manualClosed' = TRUE
    /\ closedWhileScheduled' =
          (closedWhileScheduled
             \/ (pendingTimers # {} /\ ws = 0
                   /\ \A s \in Sockets : readyState[s] \notin Live))
    /\ step' = CloseStep("disconnect", IF ws # 0 THEN NormalClosure ELSE 0)
    /\ UNCHANGED <<reconnectDelay, attempts, timersArmed, armedDelay,
                   parseErrorLog, noHandlerLog, handlerCalls, framesSeen,
                   fails, opened, dashVars>>

(***************************************************************************)
(* The state after construction: the constructor calls connect() (200),    *)
(* and the dashboard has mounted and registered its handlers (265-360).    *)
(***************************************************************************)
InitDashboard ==
    /\ intersectionStatus = NullStatus
    /\ detectionResults = "null"
    /\ analyticsData = "null"
    /\ isSimulationRunning = "null"
    /\ isLoading = FALSE
    /\ isConnecting = TRUE
    /\ activeTab = "live"
    /\ mounted = TRUE
    /\ inflight = EmptyBag
    /\ snapshotFetched = FALSE
    /\ connectTimeout = TRUE
    /\ closeCallbacks = 0
    /\ apiCall = NoCall

InitService ==
    /\ reconnectDelay = Ms(InitialReconnectDelay)
    /\ messageHandler = TRUE
    /\ attempts = 1
    /\ parseErrorLog = 0
    /\ noHandlerLog = 0
    /\ handlerCalls = 0
    /\ framesSeen = 0
    /\ opened = FALSE
    /\ manualClosed = FALSE
    /\ closedWhileScheduled = FALSE
    /\ \/ /\ ws = 1
          /\ readyState = [s \in Sockets |-> IF s = 1 THEN "CONNECTING" ELSE "NONE"]
          /\ reconnectIntervalId = 0
          /\ pendingTimers = {}
          /\ timersArmed = 0
          /\ armedDelay = 0
          /\ fails = 0
       \/ /\ ws = 0
          /\ readyState = [s \in Sockets |-> "NONE"]
          /\ reconnectIntervalId = 1
          /\ pendingTimers = {1}
          /\ timersArmed = 1
          /\ armedDelay = Ms(InitialReconnectDelay)
          /\ fails = 1

Init == InitService /\ InitDashboard /\ step = Step("constructor")

\* the dashboard with its channel created
InitMounted == Init /\ ws = 1

NextService ==
    \/ \E s \in Sockets : ws_onopen(s)
    \/ \E s \in Sockets : ws_onerror(s)
    \/ \E s \in Sockets : ws_onclose(s)
    \/ \E s \in Sockets, raw \in RawFrames : ws_onmessage(s, raw)
    \/ \E t \in pendingTimers : reconnectTimer(t)
    \/ disconnect

Spec == Init /\ [][NextService]_vars

(***************************************************************************)
(* SpecRetry: the connect / retry machine alone, its frames left out, with *)
(* the scheduling the runtime gives it: a timer that is armed and not      *)
(* cleared fires, and a channel that does not open reports its close.      *)
(***************************************************************************)
NextChannel ==
    \/ \E s \in Sockets : ws_onopen(s)
    \/ \E s \in Sockets : ws_onerror(s)
    \/ \E s \in Sockets : ws_onclose(s)
    \/ \E t \in pendingTimers : reconnectTimer(t)
    \/ disconnect

SpecRetry ==
    /\ Init
    /\ [][NextChannel]_vars
    /\ WF_vars(\E t \in pendingTimers : reconnectTimer(t))
    /\ WF_vars(\E s \in Sockets : ws_onclose(s))

(***************************************************************************)
(* SpecConnect: the connect / retry machine with connect() as an operation *)
(* of its own, invoked on the instance in whatever state it is in.         *)
(***************************************************************************)
\* connect (203-250), invoked outside the timer callback
connectCall ==
    /\ attempts < MaxAttempts
    /\ \E created \in BOOLEAN :
          connect(reconnectDelay, pendingTimers, created)
    /\ step' = Step("connect")
    /\ UNCHANGED <<reconnectDelay, messageHandler, parseErrorLog,
                   noHandlerLog, handlerCalls, framesSeen, opened,
                   manualClosed, closedWhileScheduled, dashVars>>

NextConnect ==
    \/ NextChannel
    \/ connectCall

SpecConnect == Init /\ [][NextConnect]_vars

(***************************************************************************)
(* TrafficDashboard: the handlers the channel and the user invoke, and the *)
(* completions of the request/response calls.  A handler of the channel    *)
(* runs whenever the channel invokes it; a control of the page can be used *)
(* only while the render leaves it enabled.                                *)
(***************************************************************************)
\* the render of the mount, whose fetchInitialStatus the open handler keeps
MountRender ==
    [isLoading |-> FALSE, intersectionStatus |-> NullStatus,
     isConnecting |-> TRUE]

\* the guard of fetchInitialStatus (376)
fetchInitialStatusSkips(load, is, conn) == load \/ (is.present /\ ~conn)

\* the body of the service.onOpen handler (278-284), with the state tmo of
\* the timer of the service that invokes it
openHandler(tmo) ==
    IF fetchInitialStatusSkips(MountRender.isLoading,
                               MountRender.intersectionStatus,
                               MountRender.isConnecting)
    THEN CommitService(intersectionStatus, detectionResults, analyticsData,
                       isSimulationRunning, isLoading, FALSE, activeTab,
                       mounted, inflight, tmo, closeCallbacks)
    ELSE CommitService(intersectionStatus, detectionResults, analyticsData,
                       isSimulationRunning, TRUE, FALSE, activeTab, mounted,
                       Issue(inflight, Request("status", "absent")), tmo,
                       closeCallbacks)

\* service.onOpen handler (278-284); the channel reports open while the
\* dashboard shows it connecting (at first, or after a close or an error)
onOpen ==
    /\ mounted
    /\ isConnecting
    /\ openHandler(connectTimeout)
    /\ step' = Step("onOpen")
    /\ UNCHANGED svcVars

\* snapshots GET /intersection-status may return
SnapshotResults ==
    {Snapshot("api", StatusText(TextOffline), "false"),
     Snapshot("api", StatusText(TextMixed), "true"),
     Snapshot("api", StatusNonText, "false"),
     Snapshot("api", StatusAbsent, "absent")}

\* a catch that assumes offline and keeps the status it holds
fetchFailed_keepsStatus(st) ==
    Router(st.intersectionStatus, st.detectionResults, "false")

\* a catch that also drops the detection result
fetchFailed_clearsDetection(st) == Router(NullStatus, "null", "false")

\* the catch of fetchInitialStatus (389-393)
fetchFailed(st) == Router(NullStatus, st.detectionResults, "false")

\* fetchInitialStatus (374-398), from the return of the call on; a status
\* without toLowerCase throws inside the try, and the catch runs
fetchInitialStatusDone(r, ok, status) ==
    /\ r \in InFlight("status")
    /\ IF ~mounted
       THEN Commit(intersectionStatus, detectionResults, analyticsData,
                   isSimulationRunning, isLoading, isConnecting, activeTab,
                   mounted, Settle(inflight, r))
       ELSE IF ok /\ isRunningOf(status.system_status) # "throws"
            THEN Commit(status, detectionResults, analyticsData,
                        runningAfter(isSimulationRunning, status.system_status),
                        FALSE, isConnecting, activeTab, mounted,
                        Settle(inflight, r))
            ELSE LET st == fetchFailed(RouterNow)
                 IN Commit(st.intersectionStatus, st.detectionResults,
                           analyticsData, st.isSimulationRunning, FALSE,
                           isConnecting, activeTab, mounted,
                           Settle(inflight, r))
    /\ step' = DoneStep("fetchInitialStatus", ok)
    /\ UNCHANGED svcVars

\* a button that stays enabled while the channel is connecting
buttonDisabled_ignoresConnecting == isLoading \/ isSimulationRunning = "null"

\* disabled={isLoading || isConnecting || isSimulationRunning === null} (587)
buttonDisabled == isLoading \/ isConnecting \/ isSimulationRunning = "null"

\* onClick={isSimulationRunning ? handleStopSimulation : handleStartSimulation}
buttonCommand == IF isSimulationRunning = "true" THEN "stop" ELSE "start"

\* the handlers with the optimistic update the source leaves commented out
\* (469, 497)
clickSimulation_optimistic ==
    /\ mounted
    /\ ~buttonDisabled
    /\ Commit(intersectionStatus, detectionResults, analyticsData,
              IF buttonCommand = "start" THEN "true" ELSE "false", TRUE,
              isConnecting, activeTab, mounted,
              Issue(inflight, Request(buttonCommand, intersectionStatus.emergency_mode_active)))
    /\ step' = Step(buttonCommand)
    /\ UNCHANGED svcVars

\* handleStartSimulation / handleStopSimulation up to the await of callApi
\* (460-467, 488-495, 438-447)
clickSimulation ==
    /\ mounted
    /\ ~buttonDisabled
    /\ Commit(intersectionStatus, detectionResults, analyticsData,
              isSimulationRunning, TRUE, isConnecting, activeTab, mounted,
              Issue(inflight, Request(buttonCommand, intersectionStatus.emergency_mode_active)))
    /\ step' = Step(buttonCommand)
    /\ UNCHANGED svcVars

\* handleStopSimulation with the message of handleStartSimulation
simulatedFrame_alwaysOperational(r) ==
    Frame("intersection_status",
          Data("sim", StatusText(TextOperational), r.cap, "absent"))

\* the message handleStartSimulation / handleStopSimulation hand to
\* WebSocketService.simulateMessage (472-480, 500-507)
simulatedFrame(r) ==
    Frame("intersection_status",
          Data("sim",
               StatusText(IF r.kind = "start" THEN TextOperational
                          ELSE TextOffline),
               r.cap, "absent"))

\* callApi from the return of the call on (447-456), then the rest of
\* handleStartSimulation / handleStopSimulation (468-485, 496-511)
simulationDone(r, ok) ==
    /\ r \in InFlight("start") \cup InFlight("stop")
    /\ IF ~mounted
       THEN Commit(intersectionStatus, detectionResults, analyticsData,
                   isSimulationRunning, isLoading, isConnecting, activeTab,
                   mounted, Settle(inflight, r))
       ELSE LET st == IF ok THEN onMessage(RouterNow, simulatedFrame(r))
                      ELSE RouterNow
            IN Commit(st.intersectionStatus, st.detectionResults,
                      analyticsData, st.isSimulationRunning, FALSE,
                      isConnecting, activeTab, mounted, Settle(inflight, r))
    /\ step' = DoneStep(r.kind \o "Done", ok)
    /\ UNCHANGED svcVars

\* useDropzone onDrop up to the await (408-422); disabled: isLoading (407)
onDrop(hasFile) ==
    /\ mounted
    /\ ~isLoading
    /\ IF hasFile
       THEN Commit(intersectionStatus, detectionResults, analyticsData,
                   isSimulationRunning, TRUE, isConnecting, activeTab,
                   mounted, Issue(inflight, Request("detect", "absent")))
       ELSE Commit(intersectionStatus, detectionResults, analyticsData,
                   isSimulationRunning, isLoading, isConnecting, activeTab,
                   mounted, inflight)
    /\ step' = DoneStep("onDrop", hasFile)
    /\ UNCHANGED svcVars

\* useDropzone onDrop from the return of the call on (422-432)
onDropDone(r, ok) ==
    /\ r \in InFlight("detect")
    /\ IF ~mounted
       THEN Commit(intersectionStatus, detectionResults, analyticsData,
                   isSimulationRunning, isLoading, isConnecting, activeTab,
                   mounted, Settle(inflight, r))
       ELSE IF ok
            THEN Commit(intersectionStatus, "dapi", analyticsData,
                        isSimulationRunning, FALSE, isConnecting, "detection",
                        mounted, Settle(inflight, r))
            ELSE Commit(intersectionStatus, detectionResults, analyticsData,
                        isSimulationRunning, FALSE, isConnecting, activeTab,
                        mounted, Settle(inflight, r))
    /\ step' = DoneStep("onDropDone", ok)
    /\ UNCHANGED svcVars

\* loadAnalytics from the return of the call on (524-537)
loadAnalyticsDone(r, ok) ==
    /\ r \in InFlight("analytics")
    /\ IF ~mounted
       THEN Commit(intersectionStatus, detectionResults, analyticsData,
                   isSimulationRunning, isLoading, isConnecting, activeTab,
                   mounted, Settle(inflight, r))
       ELSE Commit(intersectionStatus, detectionResults,
                   IF ok THEN "a1" ELSE "null", isSimulationRunning, FALSE,
                   isConnecting, activeTab, mounted, Settle(inflight, r))
    /\ step' = DoneStep("loadAnalyticsDone", ok)
    /\ UNCHANGED svcVars

\* onClick={() => setActiveTab(id)} of a navigation tab; setting the tab
\* that is active already renders nothing
selectTab(t) ==
    /\ mounted
    /\ t # activeTab
    /\ Commit(intersectionStatus, detectionResults, analyticsData,
              isSimulationRunning, isLoading, isConnecting, t, mounted,
              inflight)
    /\ step' = Step("selectTab")
    /\ UNCHANGED svcVars

\* the timer of the tab effect (547-551): armed by every render away from
\* the detection tab that shows a detection result, cleared by the next
clearDetectionTimer ==
    /\ mounted
    /\ activeTab # "detection"
    /\ detectionResults # "null"
    /\ Commit(intersectionStatus, "null", analyticsData, isSimulationRunning,
              isLoading, isConnecting, activeTab, mounted, inflight)
    /\ step' = Step("clearDetectionTimer")
    /\ UNCHANGED svcVars

\* service.onMessage handler (286-329), invoked by the channel
onMessageHandler(data) ==
    /\ mounted
    /\ CommitRouter(onMessage(RouterNow, data))
    /\ step' = FrameStep("onMessage", data)
    /\ UNCHANGED svcVars

\* handlers that keep the intersection they hold
connectionLost_keepsStatus(st) ==
    Router(st.intersectionStatus, st.detectionResults, "false")

\* the setters the close and error handlers share, beside
\* setIsConnecting(true) (341-342, 355-356)
connectionLost(st) == Router(NullStatus, st.detectionResults, "false")

\* a handler that takes only 1000 for a clean close
connectionLostToast_unless1000(code) == code # NormalClosure

\* the toast of the close handler (335-336):
\* "Real-time connection lost. Attempting to reconnect..."
connectionLostToast(code) == code # NormalClosure /\ code # GoingAway

\* the state updates of the service.onClose handler (340-342), with the
\* state of the service that invokes it
closeHandler(tmo, closes) ==
    LET st == connectionLost(RouterNow)
    IN CommitService(st.intersectionStatus, st.detectionResults,
                     analyticsData, st.isSimulationRunning, isLoading, TRUE,
                     activeTab, mounted, inflight, tmo, closes)

\* service.onClose handler (332-344)
onClose(code) ==
    /\ mounted
    /\ closeHandler(connectTimeout, closeCallbacks)
    /\ step' = ToastStep("onClose", code, connectionLostToast(code))
    /\ UNCHANGED svcVars

\* service.onError handler (347-357)
onError ==
    /\ mounted
    /\ LET st == connectionLost(RouterNow)
       IN Commit(st.intersectionStatus, st.detectionResults, analyticsData,
                 st.isSimulationRunning, isLoading, TRUE, activeTab, mounted,
                 inflight)
    /\ step' = Step("onError")
    /\ UNCHANGED svcVars

\* the constructor's timer of the dashboard's own service (107-110): one
\* second after the mount it invokes the open handler
mockConnectTimer ==
    /\ connectTimeout
    /\ mounted
    /\ openHandler(FALSE)
    /\ step' = Step("onOpen")
    /\ UNCHANGED svcVars

\* disconnect() of the dashboard's own service (120-130), called on the
\* instance the mounted dashboard holds: clearTimeout, then the close
\* handler is invoked with a close event of code 1000
mockDisconnect ==
    /\ mounted
    /\ closeCallbacks < MaxDisconnects
    /\ closeHandler(FALSE, closeCallbacks + 1)
    /\ step' = ToastStep("mock.disconnect", NormalClosure,
                         connectionLostToast(NormalClosure))
    /\ UNCHANGED svcVars

\* the cleanup of the mount effect (363-369): it calls disconnect() of the
\* service, whose close handler sets state on a component that is gone, as
\* does whatever the other handlers set after it
unmount ==
    /\ mounted
    /\ CommitService(intersectionStatus, detectionResults, analyticsData,
                     isSimulationRunning, isLoading, isConnecting, activeTab,
                     FALSE, inflight, FALSE, closeCallbacks + 1)
    /\ step' = Step("unmount")
    /\ UNCHANGED svcVars

(***************************************************************************)
(* SpecResponse: handleResponse (trafficAPI.ts 16-39) under every response *)
(* of Responses.                                                           *)
(***************************************************************************)
fetchDone(r) ==
    /\ apiCall' = [response |-> r, outcome |-> handleResponse(r)]
    /\ step' = Step("handleResponse")
    /\ UNCHANGED <<intersectionStatus, detectionResults, analyticsData,
                   isSimulationRunning, isLoading, isConnecting, activeTab,
                   mounted, inflight, snapshotFetched, connectTimeout,
                   closeCallbacks>>
    /\ UNCHANGED svcVars

NextResponse == \E r \in Responses : fetchDone(r)

SpecResponse == Init /\ [][NextResponse]_vars

(***************************************************************************)
(* SpecRouter: the handlers of the channel under every frame of Frames.    *)
(***************************************************************************)
NextRouter ==
    \/ \E f \in Frames : onMessageHandler(f)
    \/ \E c \in CloseCodes : onClose(c)
    \/ onError

SpecRouter == InitMounted /\ [][NextRouter]_vars

(***************************************************************************)
(* SpecClose: how a connection ends.  The connect / retry machine of       *)
(* trafficAPI.ts, and beside it the dashboard with the service of its own  *)
(* file: the open timer and disconnect() of that service, the close and    *)
(* error notifications, and the snapshot fetch the open handler starts.    *)
(***************************************************************************)
NextClose ==
    \/ NextChannel
    \/ mockConnectTimer
    \/ mockDisconnect
    \/ \E c \in CloseCodes : onClose(c)
    \/ onError
    \/ \E r \in BagToSet(inflight), status \in SnapshotResults :
          fetchInitialStatusDone(r, TRUE, status)
    \/ \E r \in BagToSet(inflight) : fetchInitialStatusDone(r, FALSE, NullStatus)

SpecClose == Init /\ [][NextClose]_vars

(***************************************************************************)
(* SpecDashboard: the whole dashboard under the frames of DashFrames.      *)
(***************************************************************************)
DashFrames ==
    {Frame("intersection_status",
           Data("p1", StatusText(TextOperational), "true", "absent")),
     Frame("intersection_status",
           Data("p1", StatusText(TextOffline), "absent", "absent")),
     Frame("vehicle_detection", Data("d1", StatusAbsent, "absent", "absent")),
     Frame("emergency_alert", Data("absent", StatusAbsent, "absent", "true")),
     Frame("emergency_alert", Data("absent", StatusAbsent, "absent", "false")),
     Frame("heartbeat", NoData)}

NextDashboard ==
    \/ onOpen
    \/ \E r \in BagToSet(inflight), status \in SnapshotResults :
          fetchInitialStatusDone(r, TRUE, status)
    \/ \E r \in BagToSet(inflight) : fetchInitialStatusDone(r, FALSE, NullStatus)
    \/ clickSimulation
    \/ \E r \in BagToSet(inflight), ok \in BOOLEAN : simulationDone(r, ok)
    \/ \E hasFile \in BOOLEAN : onDrop(hasFile)
    \/ \E r \in BagToSet(inflight), ok \in BOOLEAN : onDropDone(r, ok)
    \/ \E r \in BagToSet(inflight), ok \in BOOLEAN : loadAnalyticsDone(r, ok)
    \/ \E t \in {"live", "detection", "analytics"} : selectTab(t)
    \/ clearDetectionTimer
    \/ \E f \in DashFrames : onMessageHandler(f)
    \/ \E c \in CloseCodes : onClose(c)
    \/ onError
    \/ unmount

SpecDashboard == InitMounted /\ [][NextDashboard]_vars

(***************************************************************************)
(* Properties of WebSocketService, under Spec.                             *)
(***************************************************************************)
\* C1: once disconnect() has been called, the instance arms no reconnect
\* timer and opens no channel, also when the close event of the channel it
\* closed arrives afterwards.
C1_NoReconnectAfterDisconnect ==
    [][manualClosed => timersArmed' = timersArmed /\ attempts' = attempts]_vars

\* C2: disconnect() called with a reconnect timer pending and no channel
\* alive cancels the timer, and no connect attempt follows on the instance.
C2_CloseWhileScheduled ==
    [][closedWhileScheduled' =>
          /\ pendingTimers' = {}
          /\ closedWhileScheduled =>
                attempts' = attempts /\ timersArmed' = timersArmed]_vars

C2_Witness ==
    closedWhileScheduled /\ step.kind = "disconnect" /\ attempts >= 2

\* min(30000, 5000 * 1.5^n), in the unit of reconnectDelay
RECURSIVE Pow(_, _)
Pow(b, n) == IF n = 0 THEN 1 ELSE b * Pow(b, n - 1)

BackoffMs(n) ==
    IF InitialReconnectDelay * Pow(MultNum, n) >= maxReconnectDelay * Pow(MultDen, n)
    THEN Ms(maxReconnectDelay)
    ELSE (Ms(InitialReconnectDelay) * Pow(MultNum, n)) \div Pow(MultDen, n)

\* C3, as claimed: after N consecutive failed attempts of a fresh service,
\* with no open in between, the reconnect timer is armed (here by the close
\* event of the Nth attempt) with min(30000, 5000 * 1.5^N).
C3_DelayAfterNFailures ==
    (step.kind = "ws.onclose" /\ fails >= 1 /\ ~opened) =>
        armedDelay = BackoffMs(fails)

\* C3, amended: after N >= 1 consecutive failed attempts of a fresh service,
\* with no open in between, the reconnect timer is armed with
\* min(30000, 5000 * 1.5^(N-1)): 5000 ms after the first failure.
C3_DelayAfterNFailuresAmended ==
    (fails >= 1 /\ ~opened) => armedDelay = BackoffMs(fails - 1)

C3_Witness ==
    /\ fails = MaxAttempts
    /\ ~opened
    /\ armedDelay = Ms(maxReconnectDelay)
    /\ pendingTimers # {}

\* C4: after a successful open, whatever failures came before it, the timer
\* armed by the next close uses the base delay of 5000 ms.
C4_DelayResetsOnOpen ==
    (opened /\ fails = 1) => armedDelay = Ms(InitialReconnectDelay)

C4_Witness ==
    /\ opened
    /\ fails = 1
    /\ timersArmed >= 4
    /\ step.kind = "ws.onclose"
    /\ pendingTimers # {}

\* C10: a raw frame JSON.parse rejects is dropped: the message handler is
\* not invoked, the dashboard state is unchanged, one decode error is
\* logged, and the channel stays as it was (open).
C10_MalformedFrameDropped ==
    [][(step'.kind = "ws.onmessage" /\ ~step'.ok) =>
          /\ UNCHANGED dashVars
          /\ handlerCalls' = handlerCalls
          /\ parseErrorLog' = parseErrorLog + 1
          /\ UNCHANGED <<ws, readyState, messageHandler>>]_vars

C10_Witness ==
    /\ step.kind = "ws.onmessage"
    /\ ~step.ok
    /\ parseErrorLog = 1
    /\ messageHandler
    /\ intersectionStatus.present
    /\ ws # 0 /\ readyState[ws] = "OPEN"

\* C21: every channel of the instance but the one created last has reported
\* its close (or was never created, the constructor having thrown): at
\* most one channel is CONNECTING or OPEN, and a channel is created only
\* after the one before it has closed.
C21_OneLiveChannel ==
    \A s \in Sockets : s < attempts => readyState[s] \in {"NONE", "CLOSED"}

C21_Witness ==
    /\ attempts = 3
    /\ ws = 3
    /\ readyState[3] = "OPEN"
    /\ readyState[2] = "CLOSED"
    /\ readyState[1] = "CLOSED"
    /\ manualClosed

\* C26: at most one reconnect timer is pending, and none is pending while
\* a channel of the instance is OPEN.
C26_OneTimer ==
    /\ Cardinality(pendingTimers) <= 1
    /\ (\E s \in Sockets : readyState[s] = "OPEN") => pendingTimers = {}

C26_Witness ==
    /\ step.kind = "ws.onopen"
    /\ timersArmed >= 3
    /\ pendingTimers = {}
    /\ reconnectIntervalId = 0
    /\ ws # 0 /\ readyState[ws] = "OPEN"

\* C22: every frame that JSON.parse accepts is handed to the message handler
\* once, and a frame of a recognized type applies the update of its type
\* and neither of the other two.
C22_DeliveredExactlyOnce ==
    [][(step'.kind = "ws.onmessage" /\ step'.ok) =>
          /\ handlerCalls' = handlerCalls + 1
          /\ (mounted /\ step'.frame.type = "intersection_status") =>
                /\ intersectionStatus' = statusOf(step'.frame.data)
                /\ detectionResults' = detectionResults
          /\ (mounted /\ step'.frame.type = "vehicle_detection") =>
                /\ intersectionStatus' = intersectionStatus
                /\ isSimulationRunning' = isSimulationRunning
          /\ (mounted /\ step'.frame.type = "emergency_alert") =>
                /\ intersectionStatus'.emergency_mode_active =
                      activeFlagOf(step'.frame.data)
                /\ detectionResults' = detectionResults
                /\ isSimulationRunning' = isSimulationRunning]_vars

\* C27: the reconnect delay is always within 5000..30000 ms, and between
\* two successful opens it never decreases: only the open handler lowers it.
C27_DelayBounded ==
    /\ [](reconnectDelay \in Ms(5000)..Ms(maxReconnectDelay))
    /\ [][step'.kind # "ws.onopen" => reconnectDelay' >= reconnectDelay]_vars

C27_Witness ==
    /\ step.kind = "ws.onclose"
    /\ timersArmed >= 5
    /\ reconnectDelay = Ms(maxReconnectDelay)
    /\ ~manualClosed

\* C17: in a run in which no channel ever opens and disconnect() is never
\* called, every connection attempt is followed by another one, up to the
\* bound of the model, and no timer is ever armed with more than 30000 ms.
C17_RetriesContinue ==
    ([]~manualClosed /\ []~opened) =>
        /\ \A n \in 1..(MaxAttempts - 1) :
              [](attempts = n => <>(attempts = n + 1))
        /\ [](armedDelay <= Ms(maxReconnectDelay))

C17_Witness ==
    /\ attempts = MaxAttempts
    /\ ~opened
    /\ ~manualClosed
    /\ step.kind = "reconnectTimer"
    /\ reconnectDelay = Ms(maxReconnectDelay)

\* connect() is entered only with no channel held: by the constructor, or
\* by a timer that the close of the channel or a failed creation armed
ConnectEnteredWithoutChannel == pendingTimers # {} => ws = 0

MessageStep(st) == st.kind = "onMessage"
Unrecognized(f) == ~f.isObject \/ f.type \notin RecognizedTypes

\* C5: a frame whose type is missing or is none of the three recognized
\* ones leaves intersection, running flag, detection, analytics and
\* connection status unchanged.
C5_UnknownFrameChangesNothing ==
    [][(MessageStep(step') /\ Unrecognized(step'.frame)) =>
          UNCHANGED <<intersectionStatus, isSimulationRunning, detectionResults,
                      analyticsData, isConnecting>>]_vars

C5_Witness ==
    /\ MessageStep(step)
    /\ step.frame.type = "heartbeat"
    /\ step.frame.data.present
    /\ intersectionStatus.present
    /\ detectionResults # "null"

\* C6: after an emergency_alert frame is processed, the emergency flag the
\* dashboard holds is the is_active flag of that frame (not active when the
\* frame carries none).
C6_EmergencyFollowsLastAlert ==
    (MessageStep(step) /\ step.frame.type = "emergency_alert") =>
        intersectionStatus.emergency_mode_active =
            (IF step.frame.data.is_active = "true" THEN "true" ELSE "false")

C6_Witness ==
    /\ MessageStep(step)
    /\ step.frame.type = "emergency_alert"
    /\ step.frame.data.is_active = "false"
    /\ intersectionStatus.body = "p1"
    /\ intersectionStatus.emergency_mode_active = "false"

\* the status text mentions "operational", letter case apart
SameLetter(a, b) ==
    a = b \/ \E i \in DOMAIN UpperCase :
                {a, b} = {UpperCase[i], LowerCase[i]}

MentionsOperational(t) ==
    \E k \in 0..Len(t) :
        /\ k + Len(OperationalMarker) <= Len(t)
        /\ \A j \in DOMAIN OperationalMarker :
              SameLetter(t[k + j], OperationalMarker[j])

\* C9: after an intersection_status frame whose payload carries a status
\* text, the running flag is true if the text, letter case apart, contains
\* "operational", and false otherwise.
C9_RunningFollowsStatusText ==
    (/\ MessageStep(step)
     /\ step.frame.type = "intersection_status"
     /\ step.frame.data.system_status.kind = "text") =>
        isSimulationRunning =
            (IF MentionsOperational(step.frame.data.system_status.text)
             THEN "true" ELSE "false")

C9_Witness ==
    /\ MessageStep(step)
    /\ step.frame.type = "intersection_status"
    /\ step.frame.data.system_status = StatusText(TextMixed)
    /\ isSimulationRunning = "true"

\* C25: an intersection_status frame whose payload carries no status text
\* replaces the intersection with the payload and leaves the running flag
\* at the value it had.
C25_NoStatusTextKeepsRunning ==
    [][(/\ MessageStep(step')
        /\ step'.frame.type = "intersection_status"
        /\ step'.frame.data.system_status.kind # "text") =>
           /\ intersectionStatus' = statusOf(step'.frame.data)
           /\ isSimulationRunning' = isSimulationRunning]_vars

C25_Witness ==
    /\ MessageStep(step)
    /\ step.frame.type = "intersection_status"
    /\ step.frame.data.present
    /\ step.frame.data.system_status = StatusAbsent
    /\ intersectionStatus = statusOf(step.frame.data)
    /\ isSimulationRunning = "true"

(***************************************************************************)
(* Properties of the dashboard, under SpecDashboard.                       *)
(***************************************************************************)
EmergencyActive == intersectionStatus.emergency_mode_active = "true"

AlertStep(st) == MessageStep(st) /\ st.frame.type = "emergency_alert"
StatusStep(st) == MessageStep(st) /\ st.frame.type = "intersection_status"
DisconnectStep(st) == st.kind \in {"onClose", "onError"}
SnapshotStep(st) == st.kind = "fetchInitialStatus"
CommandDoneStep(st) == st.kind \in {"startDone", "stopDone"}

\* C7, as claimed: the emergency flag becomes true only in a step that
\* processes an emergency_alert frame, and becomes false only in such a
\* step or in one that processes a close or error notification.
C7_EmergencyWriters ==
    [][/\ (EmergencyActive' /\ ~EmergencyActive) => AlertStep(step')
       /\ (EmergencyActive /\ ~EmergencyActive') =>
             AlertStep(step') \/ DisconnectStep(step')]_vars

\* C7, amended: the emergency flag becomes true only in a step that
\* processes an emergency_alert frame, an intersection_status frame, the
\* result of the snapshot fetch or the completion of a start or stop
\* command, and becomes false only in such a step or in one that processes
\* a close or error notification.
C7_EmergencyWritersAmended ==
    [][/\ (EmergencyActive' /\ ~EmergencyActive) =>
             \/ AlertStep(step') \/ StatusStep(step')
             \/ SnapshotStep(step') \/ CommandDoneStep(step')
       /\ (EmergencyActive /\ ~EmergencyActive') =>
             \/ AlertStep(step') \/ StatusStep(step')
             \/ SnapshotStep(step') \/ CommandDoneStep(step')
             \/ DisconnectStep(step')]_vars

C7_Witness ==
    /\ step.kind = "startDone"
    /\ step.ok
    /\ EmergencyActive
    /\ intersectionStatus.body = "sim"

\* C8: no two calls of the same command (start, stop, image detection) are
\* in flight at once.
C8_OneRequestPerResource ==
    \A k \in {"start", "stop", "detect"} : CountInFlight(k) <= 1

FailedCall(st) ==
    /\ st.kind \in {"fetchInitialStatus", "startDone", "stopDone", "onDropDone",
                    "loadAnalyticsDone"}
    /\ ~st.ok

\* C11, as claimed: when the failure of a request/response call (snapshot
\* fetch, start, stop, image detection, analytics load) is handled,
\* intersection, running flag, detection and analytics are left as they were.
C11_FailureLeavesState ==
    [][FailedCall(step') =>
          UNCHANGED <<intersectionStatus, isSimulationRunning, detectionResults,
                      analyticsData>>]_vars

\* C11, amended: the failure of a start, stop or image detection call leaves
\* intersection, running flag, detection and analytics as they were; the
\* failure of the snapshot fetch sets intersection to absent and the running
\* flag to false and leaves detection and analytics as they were; the
\* failure of the analytics load sets analytics to absent and leaves the
\* other three as they were.
C11_FailureLeavesStateAmended ==
    [][(FailedCall(step') /\ mounted) =>
          CASE step'.kind = "fetchInitialStatus" ->
                  /\ intersectionStatus' = NullStatus
                  /\ isSimulationRunning' = "false"
                  /\ UNCHANGED <<detectionResults, analyticsData>>
            [] step'.kind = "loadAnalyticsDone" ->
                  /\ analyticsData' = "null"
                  /\ UNCHANGED <<intersectionStatus, isSimulationRunning,
                                 detectionResults>>
            [] OTHER ->
                  UNCHANGED <<intersectionStatus, isSimulationRunning,
                              detectionResults, analyticsData>>]_vars

C11_Witness ==
    /\ step.kind = "fetchInitialStatus"
    /\ ~step.ok
    /\ mounted
    /\ ~intersectionStatus.present
    /\ isSimulationRunning = "false"
    /\ detectionResults # "null"
    /\ analyticsData # "null"

\* C12: while the dashboard is mounted and at least one request/response
\* call is in flight, the loading marker is set: the completion of one call
\* does not clear it for another.
C12_LoadingWhileInFlight ==
    (mounted /\ BagCardinality(inflight) > 0) => isLoading

\* the effect of the render this step commits issues an analytics load; the
\* completion of an analytics load has one fewer in flight to begin with
AnalyticsIssued ==
    CopiesIn(Request("analytics", "absent"), inflight') >
        CopiesIn(Request("analytics", "absent"), inflight)
           - (IF step'.kind = "loadAnalyticsDone" THEN 1 ELSE 0)

\* C13: while the dashboard is mounted, the successful completion of a start
\* command clears the loading marker and sets the running flag to true, that
\* of a stop command clears the marker and sets the flag to false (the
\* marker is set after such a step only when the render that follows issues
\* an analytics load, which sets it again), and a failed start or stop
\* leaves the running flag and the intersection as they were.
C13_CommandAppliedOnSuccess ==
    [][(CommandDoneStep(step') /\ mounted) =>
          IF step'.ok
          THEN /\ isSimulationRunning' =
                     (IF step'.kind = "startDone" THEN "true" ELSE "false")
               /\ isLoading' => AnalyticsIssued
          ELSE UNCHANGED <<isSimulationRunning, intersectionStatus>>]_vars

C13_Witness ==
    /\ step.kind = "stopDone"
    /\ step.ok
    /\ mounted
    /\ isSimulationRunning = "false"
    /\ ~isLoading
    /\ intersectionStatus.body = "sim"

\* C14: after a close or error notification of the channel is processed,
\* the dashboard shows the connection as connecting (not live), holds no
\* intersection and no active emergency flag, and its detection result and
\* analytics are the ones it held before that step.
C14_CloseOrErrorClears ==
    [][DisconnectStep(step') =>
          /\ isConnecting'
          /\ ~intersectionStatus'.present
          /\ intersectionStatus'.emergency_mode_active # "true"
          /\ UNCHANGED <<detectionResults, analyticsData>>]_vars

C14_Witness ==
    /\ step.kind = "onError"
    /\ isConnecting
    /\ intersectionStatus = NullStatus
    /\ detectionResults # "null"
    /\ analyticsData # "null"
    /\ BagCardinality(inflight) > 0

\* the step issues the snapshot fetch (GET /intersection-status)
SnapshotIssued ==
    CopiesIn(Request("status", "absent"), inflight') >
        CopiesIn(Request("status", "absent"), inflight)

\* C15: the snapshot fetch is issued only by the step that processes the
\* open notification of the channel, only when the dashboard holds no
\* intersection status received by push, and only if it has not been issued
\* before.
C15_SnapshotFetchedOnce ==
    [][SnapshotIssued =>
          /\ step'.kind = "onOpen"
          /\ ~intersectionStatus.present
          /\ ~snapshotFetched]_vars

\* C16: while an analytics result is cached, no step issues an analytics
\* fetch and no step clears or replaces the cached result.
C16_AnalyticsCacheKept ==
    [][analyticsData # "null" =>
          /\ ~AnalyticsIssued
          /\ analyticsData' = analyticsData]_vars

(***************************************************************************)
(* Properties of the end of a connection, under SpecClose.                 *)
(***************************************************************************)
\* the step arms a reconnect timer
ReconnectScheduled ==
    /\ timersArmed' = timersArmed + 1
    /\ reconnectIntervalId' \in pendingTimers'

\* C19, as claimed: disconnect() closes its channel with code 1000; every
\* close event that carries another code schedules a reconnect in the
\* service, and every close notification that carries another code shows
\* the connection-lost toast in the dashboard.
C19_AbnormalClose ==
    [][/\ (step'.kind = "disconnect" /\ ws # 0) => step'.code = NormalClosure
       /\ (step'.kind = "ws.onclose" /\ step'.code # NormalClosure) =>
             ReconnectScheduled
       /\ (step'.kind = "onClose" /\ step'.code # NormalClosure) =>
             step'.toast]_vars

\* C19, amended: disconnect() closes its channel with code 1000; every close
\* event that carries another code schedules a reconnect in the service;
\* a close notification shows the connection-lost toast in the dashboard
\* when it carries a code other than 1000 and 1001, and shows none when it
\* carries 1000 or 1001.
C19_AbnormalCloseAmended ==
    [][/\ (step'.kind = "disconnect" /\ ws # 0) => step'.code = NormalClosure
       /\ (step'.kind = "ws.onclose" /\ step'.code # NormalClosure) =>
             ReconnectScheduled
       /\ step'.kind = "onClose" =>
             (step'.toast <=> step'.code \notin {NormalClosure, GoingAway})]_vars

C19_Witness ==
    /\ step.kind = "onClose"
    /\ step.code = GoingAway
    /\ ~step.toast
    /\ isConnecting
    /\ manualClosed
    /\ timersArmed >= 2
    /\ pendingTimers # {}

\* C20: a call of disconnect() that follows another call of it directly
\* changes nothing of the service it is called on, closes no channel and
\* invokes no close handler: neither for the service of trafficAPI.ts nor
\* for the dashboard's own.
C20_DisconnectIdempotent ==
    [][/\ (step.kind = "disconnect" /\ step'.kind = "disconnect") =>
             UNCHANGED svcVars /\ step'.code = 0
       /\ (step.kind = "mock.disconnect" /\ step'.kind = "mock.disconnect") =>
             UNCHANGED <<connectTimeout, closeCallbacks>>]_vars

(***************************************************************************)
(* Who writes the state of the dashboard, under SpecDashboard.             *)
(***************************************************************************)
CallDoneStep(st) ==
    st.kind \in {"fetchInitialStatus", "startDone", "stopDone", "onDropDone",
                 "loadAnalyticsDone"}

StoreChanges ==
    <<intersectionStatus, isSimulationRunning, detectionResults,
      analyticsData>>' #
    <<intersectionStatus, isSimulationRunning, detectionResults, analyticsData>>

\* C23, as claimed: intersection, running flag, detection and analytics
\* change only in a step that processes a push frame, a close or error
\* notification, or the completion of a request/response call.
C23_StoreWriters ==
    [][StoreChanges =>
          MessageStep(step') \/ DisconnectStep(step') \/ CallDoneStep(step')]_vars

\* C23, amended: intersection, running flag, detection and analytics change
\* only in a step that processes a push frame, a close or error
\* notification, or the completion of a request/response call, or when the
\* timer the tab effect arms on a render away from the detection tab fires:
\* that step sets detection to absent and leaves the other three alone.
C23_StoreWritersAmended ==
    [][StoreChanges =>
          \/ MessageStep(step') \/ DisconnectStep(step') \/ CallDoneStep(step')
          \/ /\ step'.kind = "clearDetectionTimer"
             /\ activeTab # "detection"
             /\ detectionResults' = "null"
             /\ UNCHANGED <<intersectionStatus, isSimulationRunning,
                            analyticsData>>]_vars

C23_Witness ==
    /\ step.kind = "clearDetectionTimer"
    /\ detectionResults = "null"
    /\ activeTab = "analytics"
    /\ intersectionStatus.present
    /\ analyticsData # "null"

\* C29: when an analytics fetch fails while the dashboard shows the analytics
\* tab, the render that handles the failure issues another analytics fetch,
\* whatever the number of failures before it; and a step issues an analytics
\* fetch only if the loading marker was clear before it or the step is the
\* completion of a call, which clears the marker before the render.
C29_AnalyticsRetried ==
    [][
        /\ (/\ step'.kind = "loadAnalyticsDone"
            /\ ~step'.ok
            /\ mounted
            /\ activeTab = "analytics") => (AnalyticsIssued /\ isLoading')
        /\ AnalyticsIssued =>
              (/\ ~isLoading \/ CallDoneStep(step')
               /\ isLoading')
    ]_vars

C29_Witness ==
    /\ step.kind = "loadAnalyticsDone"
    /\ ~step.ok
    /\ mounted
    /\ activeTab = "analytics"
    /\ analyticsData = "null"
    /\ isLoading
    /\ inflight = SetToBag({Request("analytics", "absent")})

\* a start or stop request joins the calls in flight
CommandIssued ==
    \E k \in {"start", "stop"}, c \in {"absent", "true", "false"} :
        CopiesIn(Request(k, c), inflight') > CopiesIn(Request(k, c), inflight)

\* C30: a start or stop request is issued only by a click on the button, and
\* only when the loading marker is clear, the dashboard is not connecting
\* and the running flag is definite; the request is stop when the running
\* flag is true and start when it is false.
C30_CommandGuard ==
    [][(CommandIssued \/ step'.kind \in {"start", "stop"}) =>
          /\ CommandIssued
          /\ mounted
          /\ ~isLoading
          /\ ~isConnecting
          /\ isSimulationRunning # "null"
          /\ step'.kind = (IF isSimulationRunning = "true" THEN "stop"
                           ELSE "start")
          /\ Request(step'.kind, intersectionStatus.emergency_mode_active)
                \in BagToSet(inflight')]_vars

C30_Witness ==
    /\ step.kind = "stop"
    /\ isSimulationRunning = "true"
    /\ isLoading
    /\ ~isConnecting
    /\ CountInFlight("stop") = 1
    /\ CountInFlight("start") = 1

\* C28: whenever the intersection is present and carries a status text, the
\* running flag is true exactly when that text, lowercased, contains
\* "operational".
C28_RunningMatchesStatus ==
    (/\ intersectionStatus.present
     /\ intersectionStatus.system_status.kind = "text") =>
        isSimulationRunning =
            (IF MentionsOperational(intersectionStatus.system_status.text)
             THEN "true" ELSE "false")

C28_Witness ==
    /\ step.kind = "fetchInitialStatus"
    /\ step.ok
    /\ intersectionStatus.present
    /\ intersectionStatus.system_status = StatusText(TextMixed)
    /\ isSimulationRunning = "true"

(***************************************************************************)
(* Properties of handleResponse, under SpecResponse.                       *)
(***************************************************************************)
Handled == step.kind = "handleResponse"
Failure == Handled /\ ~responseOk(apiCall.response)

\* C24, as claimed: for every response with a non-success status,
\* handleResponse fails with an error whose message is the detail string
\* the body carries when one is present, and the status text otherwise.
C24_ErrorMessage ==
    Failure =>
       /\ apiCall.outcome.kind = "throw"
       /\ apiCall.outcome.message =
             (IF apiCall.response.body.detail.kind = "text"
              THEN apiCall.response.body.detail.text
              ELSE apiCall.response.statusText)

\* C24, amended: for every response with a non-success status,
\* handleResponse fails with an error.  When the body is JSON and carries a
\* detail that is a non-empty string, the message is that string; when it
\* carries a detail that is a list, the message is the list converted to a
\* string; when the body is JSON with no detail or an empty one, the
\* message is "HTTP error! Status: " followed by the status code; when the
\* body is not JSON, the message is the status text, or "Unknown fetch
\* error" when the status text is empty.
C24_ErrorMessageAmended ==
    Failure =>
       LET body == apiCall.response.body
           message == apiCall.outcome.message
       IN /\ apiCall.outcome.kind = "throw"
          /\ (body.detail.kind = "text" /\ body.detail.text # "") =>
                 message = body.detail.text
          /\ body.detail.kind = "list" => message = "[object Object]"
          /\ (body.kind # "invalid" /\ body.detail \in {NoDetail, DetailText("")}) =>
                 \E n \in Statuses :
                    /\ n = apiCall.response.status
                    /\ message = "HTTP error! Status: " \o ToString(n)
          /\ (body.kind = "invalid" /\ apiCall.response.statusText # "") =>
                 message = apiCall.response.statusText
          /\ (body.kind = "invalid" /\ apiCall.response.statusText = "") =>
                 message = "Unknown fetch error"

C24_Witness ==
    /\ Failure
    /\ apiCall.response.status = 404
    /\ apiCall.response.statusText = "Not Found"
    /\ apiCall.response.body = JsonObject(NoDetail)
    /\ apiCall.outcome = Thrown("HTTP error! Status: 404")

TypeOK ==
    /\ ws \in 0..(MaxAttempts + 1)
    /\ reconnectDelay \in Ms(InitialReconnectDelay)..Ms(maxReconnectDelay)
    /\ (reconnectDelay * MultNum) % MultDen = 0
          \/ reconnectDelay * MultNum >= Ms(maxReconnectDelay) * MultDen

====
